---- MODULE Spec2Model ----
(***************************************************************************)
(* A model of the Roller value core (src/src/value.rs) and of the REPL     *)
(* loop (src/src/main.rs).                                                 *)
(*                                                                         *)
(* Value::Num holds a num::rational::Ratio<i32>.  Its arithmetic is        *)
(* modelled at the 32-bit width: every i32 operation yields the wrapped    *)
(* two's-complement result together with an overflow flag.  A build with   *)
(* overflow checks (rustc's debug profile) panics when the flag is set, a  *)
(* build without them (release profile) continues with the wrapped value.  *)
(* The variable overflow_checks selects the build.                         *)
(***************************************************************************)
EXTENDS Integers, Sequences, FiniteSets, TLC

VARIABLES
    overflow_checks, \* TRUE: arithmetic overflow panics (debug profile)
    \* --- one call of a Value operation (value.rs 152-252)
    self_v,          \* the receiver (&self)
    rhs,             \* the right operand (unary operations ignore it)
    op,              \* name of the operation applied, "none" before the call
    res,             \* what the call produced: Ok, Err or Panic
    fed,             \* the unary operation whose result became rhs, or "none"
    \* --- one call of Value::index_mut (value.rs 100-149)
    container,       \* the indexed value (&mut self), updated in place
    container0,      \* the indexed value as it was passed in
    arg,             \* the key
    insert,          \* the insert flag
    idx_res,         \* "none" before the call, then Ok(location), Err or Panic
    \* --- FunDef::check_valid (value.rs 35-46)
    arg_names,       \* self.arg_names
    cv_pos,          \* how many names the for loop has consumed
    test_map,        \* the BTreeSet of names seen
    cv_res,          \* "running", Ok or Err
    \* --- Value::new_string (value.rs 65-92)
    s,               \* the input, a sequence of characters
    char_iter,       \* how many characters char_iter has yielded
    out_str,         \* the output built so far
    ns_res,          \* "running", then the returned Value
    \* --- real_main (main.rs 18-97)
    pc,              \* position in the loop: "read", "match", "after_loop", "exited"
    in_isatty,
    out_isatty,
    line_res,        \* outcome of the last read
    reads,           \* every read outcome so far, in order
    stdout,          \* lines printed to standard output
    stderr,          \* lines printed to standard error
    history,         \* rustyline history entries
    parsed,          \* inputs handed to parse_expr, with each result
    return_status    \* -1 until the loop breaks, then its value

arith_vars == <<self_v, rhs, op, res, fed>>
index_vars == <<container, container0, arg, insert, idx_res>>
fun_vars   == <<arg_names, cv_pos, test_map, cv_res>>
str_vars   == <<s, char_iter, out_str, ns_res>>
repl_vars  == <<pc, in_isatty, out_isatty, line_res, reads, stdout, stderr,
                history, parsed, return_status>>
vars == <<overflow_checks, arith_vars, index_vars, fun_vars, str_vars, repl_vars>>

(***************************************************************************)
(* i32 arithmetic.  Each operation returns [v |-> wrapped result,          *)
(* ovf |-> whether the exact result lies outside the i32 range].           *)
(***************************************************************************)
I32Max == 2147483647
I32Min == -I32Max - 1

Abs(a) == IF a < 0 THEN -a ELSE a

\* a + b at 32 bits
WrapAdd(a, b) ==
    IF a >= 0 /\ b >= 0 /\ a > I32Max - b
        THEN [v |-> (a + I32Min) + (b + I32Min), ovf |-> TRUE]
    ELSE IF a < 0 /\ b < 0 /\ a < I32Min - b
        THEN [v |-> (a - I32Min) + (b - I32Min), ovf |-> TRUE]
    ELSE [v |-> a + b, ovf |-> FALSE]

\* -a at 32 bits: only -I32Min overflows, and wraps to I32Min
WrapNeg(a) ==
    IF a = I32Min THEN [v |-> I32Min, ovf |-> TRUE]
    ELSE [v |-> -a, ovf |-> FALSE]

\* a - b at 32 bits
WrapSub(a, b) ==
    IF b = I32Min
        THEN IF a >= 0 THEN [v |-> a + I32Min, ovf |-> TRUE]
             ELSE [v |-> a - I32Min, ovf |-> FALSE]
    ELSE WrapAdd(a, -b)

\* floor(2^31 / m) for 2 <= m <= I32Max
Pow31Div(m) == (I32Max \div m) + (IF I32Max % m = m - 1 THEN 1 ELSE 0)

\* whether the exact product a * b lies outside the i32 range
MulOverflows(a, b) ==
    IF a = 0 \/ b = 0 THEN FALSE
    ELSE IF a = I32Min THEN b # 1
    ELSE IF b = I32Min THEN a # 1
    ELSE IF (a > 0) = (b > 0) THEN Abs(a) > I32Max \div Abs(b)
    ELSE IF Abs(b) = 1 THEN FALSE
    ELSE Abs(a) > Pow31Div(Abs(b))

\* 2^16 and 2^8
Pow16 == 2^16
Pow8  == 2^8

\* a * b modulo 2^32 as a signed value, from 16-bit halves:
\* a = ah * 2^16 + al, b = bh * 2^16 + bl, and bl = b1 * 2^8 + b0
WrapMulBits(a, b) ==
    LET al == a % Pow16
        ah == a \div Pow16
        bl == b % Pow16
        bh == b \div Pow16
        t0 == al * (bl % Pow8)
        t1 == al * (bl \div Pow8)
        low == t0 + (t1 % Pow8) * Pow8
        lo16 == low % Pow16
        hi16 == (t1 \div Pow8) + (low \div Pow16)
        m == (((ah * bl) % Pow16) + ((al * bh) % Pow16) + hi16) % Pow16
    IN  (IF m >= Pow16 \div 2 THEN m - Pow16 ELSE m) * Pow16 + lo16

\* a * b at 32 bits
WrapMul(a, b) ==
    [v |-> WrapMulBits(a, b), ovf |-> MulOverflows(a, b)]

\* a / b of Rust: truncates toward zero; b # 0 and not (a = I32Min, b = -1)
TruncDiv(a, b) ==
    IF b = I32Min THEN (IF a = I32Min THEN 1 ELSE 0)
    ELSE IF a = I32Min
        THEN IF b = 1 THEN I32Min
             ELSE IF b > 0 THEN -Pow31Div(b) ELSE Pow31Div(-b)
    ELSE IF (a >= 0) = (b > 0) THEN Abs(a) \div Abs(b)
    ELSE -(Abs(a) \div Abs(b))

\* i32::abs: only I32Min overflows
WrapAbs(a) == IF a < 0 THEN WrapNeg(a) ELSE [v |-> a, ovf |-> FALSE]

\* number of trailing zero bits of a # 0
RECURSIVE TrailingZeros(_)
TrailingZeros(a) == IF a % 2 = 1 THEN 0 ELSE 1 + TrailingZeros(a \div 2)

\* 1 << k at 32 bits, 0 <= k <= 31
RECURSIVE Shl1(_)
Shl1(k) == IF k = 0 THEN 1 ELSE LET h == Shl1(k - 1) IN WrapAdd(h, h).v

RECURSIVE Euclid(_, _)
Euclid(m, n) == IF n = 0 THEN m ELSE Euclid(n, m % n)

\* Integer::gcd for i32 (num): the greatest common divisor, never negative,
\* except that a result of 2^31 is the overflowing abs of I32Min.
Gcd(m, n) ==
    IF m = 0 \/ n = 0 THEN WrapAbs(m + n)
    ELSE IF m = I32Min \/ n = I32Min
        THEN LET tm == TrailingZeros(m)
                 tn == TrailingZeros(n)
             IN  WrapAbs(Shl1(IF tm < tn THEN tm ELSE tn))
    ELSE [v |-> Euclid(Abs(m), Abs(n)), ovf |-> FALSE]

(***************************************************************************)
(* Ratio<i32>.  A raw result is [numer, denom, ovf, panic]: ovf says that  *)
(* some i32 operation on the way overflowed, panic that the code panics    *)
(* whatever the build (a zero denominator given to Ratio::new, a division  *)
(* that overflows, unbounded recursion).                                   *)
(***************************************************************************)
Raw(n, d, o, p) == [numer |-> n, denom |-> d, ovf |-> o, panic |-> p]

\* Ratio::new(numer, denom) on flagged arguments: zero check, then reduce()
RatioNew(n, d) ==
    IF d.v = 0 THEN Raw(n.v, d.v, n.ovf \/ d.ovf, TRUE)
    ELSE LET g  == Gcd(n.v, d.v)
             n1 == TruncDiv(n.v, g.v)
             d1 == TruncDiv(d.v, g.v)
             n2 == IF d1 < 0 THEN WrapSub(0, n1) ELSE [v |-> n1, ovf |-> FALSE]
             d2 == IF d1 < 0 THEN WrapSub(0, d1) ELSE [v |-> d1, ovf |-> FALSE]
         IN  Raw(n2.v, d2.v,
                 n.ovf \/ d.ovf \/ g.ovf \/ n2.ovf \/ d2.ovf, FALSE)

Flag2(x, y, z) == [v |-> z.v, ovf |-> x.ovf \/ y.ovf \/ z.ovf]

\* impl Add for Ratio: new(a.n * b.d + a.d * b.n, a.d * b.d)
RatioAdd(a, b) ==
    LET l == WrapMul(a.numer, b.denom)
        r == WrapMul(a.denom, b.numer)
    IN  RatioNew(Flag2(l, r, WrapAdd(l.v, r.v)), WrapMul(a.denom, b.denom))

\* impl Sub for Ratio: new(a.n * b.d - a.d * b.n, a.d * b.d)
RatioSub(a, b) ==
    LET l == WrapMul(a.numer, b.denom)
        r == WrapMul(a.denom, b.numer)
    IN  RatioNew(Flag2(l, r, WrapSub(l.v, r.v)), WrapMul(a.denom, b.denom))

\* impl Mul for Ratio: new(a.n * b.n, a.d * b.d)
RatioMul(a, b) ==
    RatioNew(WrapMul(a.numer, b.numer), WrapMul(a.denom, b.denom))

\* impl Div for Ratio: new(a.n * b.d, a.d * b.n)
RatioDiv(a, b) ==
    RatioNew(WrapMul(a.numer, b.denom), WrapMul(a.denom, b.numer))

\* impl Neg for Ratio: new_raw(-a.n, a.d)
RatioNeg(a) ==
    LET n == WrapNeg(a.numer) IN Raw(n.v, a.denom, n.ovf, FALSE)

\* Ratio::to_integer: the numerator of trunc(), numer / denom toward zero
ToInteger(a) == TruncDiv(a.numer, a.denom)

\* Ratio::is_integer
IsInteger(a) == a.denom = 1

\* one round of the loop of i32::pow: `while exp > 1 { if exp & 1 == 1
\* { acc = acc * base }; exp /= 2; base = base * base }`
PowStep(st) ==
    LET a1 == IF st.exp % 2 = 1 THEN WrapMul(st.acc, st.base)
              ELSE [v |-> st.acc, ovf |-> FALSE]
        b1 == WrapMul(st.base, st.base)
    IN  [base |-> b1.v, exp |-> st.exp \div 2, acc |-> a1.v,
         ovf |-> st.ovf \/ a1.ovf \/ b1.ovf]

\* the loop, then `if exp == 1 { acc = acc * base }`
RECURSIVE PowLoop(_)
PowLoop(st) ==
    IF st.exp > 1 THEN PowLoop(PowStep(st))
    ELSE IF st.exp = 1
        THEN LET a1 == WrapMul(st.acc, st.base)
             IN  [v |-> a1.v, ovf |-> st.ovf \/ a1.ovf]
    ELSE [v |-> st.acc, ovf |-> st.ovf]

\* i32::pow(self, exp) for exp >= 0
I32Pow(base, exp) == PowLoop([base |-> base, exp |-> exp, acc |-> 1, ovf |-> FALSE])

\* Ratio::pow(expon): 1 for a zero exponent, the power of the reciprocal
\* (new_raw(denom, numer)) for a negative one, else new_raw of both powers.
\* -expon overflows for I32Min and the recursion then never ends.
RatioPow(a, expon) ==
    IF expon = 0 THEN Raw(1, 1, FALSE, FALSE)
    ELSE IF expon = I32Min THEN Raw(a.numer, a.denom, TRUE, TRUE)
    ELSE LET e == Abs(expon)
             n == I32Pow(IF expon < 0 THEN a.denom ELSE a.numer, e)
             d == I32Pow(IF expon < 0 THEN a.numer ELSE a.denom, e)
         IN  Raw(n.v, d.v, n.ovf \/ d.ovf, FALSE)

(***************************************************************************)
(* Values (value.rs 13-25) and results (error::Result).                    *)
(***************************************************************************)
Void      == [tag |-> "Void"]
NoneV     == [tag |-> "None"]
Bool(b)   == [tag |-> "Bool", b |-> b]
Num(n, d) == [tag |-> "Num", numer |-> n, denom |-> d]
Str(cs)   == [tag |-> "Str", chars |-> cs]
List(vec) == [tag |-> "List", vec |-> vec]
Map(m)    == [tag |-> "Map", map |-> m]
Distribution == [tag |-> "Distribution"]
Func(names)  == [tag |-> "Func", arg_names |-> names]

Ok(v)     == [tag |-> "Ok", val |-> v]
Err(kind) == [tag |-> "Err", kind |-> kind]
Panic     == [tag |-> "Panic"]

\* From<Ratio<i32>> for Value (value.rs 270-274), applied to a raw result:
\* the value is only produced when the computation did not panic
IntoValue(raw) ==
    IF raw.panic \/ (overflow_checks /\ raw.ovf) THEN Panic
    ELSE Ok(Num(raw.numer, raw.denom))

(***************************************************************************)
(* The operations of Value (value.rs 152-252).                             *)
(***************************************************************************)
\* the $called_fun of impl_op!: ops::Add::add, ops::Sub::sub or ops::Mul::mul
called_fun(path, x, y) ==
    CASE path = "ops::Add::add" -> RatioAdd(x, y)
      [] path = "ops::Sub::sub" -> RatioSub(x, y)
      [] path = "ops::Mul::mul" -> RatioMul(x, y)

\* impl_op!: the Ratio operator on (Num, Num), UnsupportedOp otherwise
impl_op(path, x, y) ==
    IF x.tag = "Num" /\ y.tag = "Num" THEN IntoValue(called_fun(path, x, y))
    ELSE Err("UnsupportedOp")

neg(x) ==
    IF x.tag = "Num" THEN IntoValue(RatioNeg(x))
    ELSE Err("UnsupportedOp")

add(x, y) == impl_op("ops::Add::add", x, y)

sub(x, y) == impl_op("ops::Sub::sub", x, y)

mul(x, y) == impl_op("ops::Mul::mul", x, y)

\* the guard of div: the divisor truncated toward zero is zero
DivisorIsZero(y) == ToInteger(y) = 0

div(x, y) ==
    IF x.tag = "Num" /\ y.tag = "Num"
        THEN IF DivisorIsZero(y) THEN Err("ArithmeticError")
             ELSE IntoValue(RatioDiv(x, y))
    ELSE Err("UnsupportedOp")

\* What From<f32> (value.rs 262-268) may give for a.powf(b): from_f32 is None
\* for a NaN or an out-of-range float and unwrap then panics; otherwise it is
\* some rational approximation, which this model leaves open.
FromF32(approximations) == {Panic} \cup {Ok(q) : q \in approximations}

\* pow gives the set of results the call may produce
pow(x, y, approximations) ==
    IF x.tag = "Num" /\ y.tag = "Num"
        THEN IF y.denom = 1 THEN {IntoValue(RatioPow(x, y.numer))}
             ELSE FromF32(approximations)
    ELSE {Err("UnsupportedOp")}

not(x) ==
    IF x.tag = "Bool" THEN Ok(Bool(~x.b))
    ELSE Err("UnsupportedOp")

and(x, y) ==
    IF x.tag = "Bool" /\ y.tag = "Bool" THEN Ok(Bool(x.b /\ y.b))
    ELSE Err("UnsupportedOp")

\* the body of `and` pasted into `or` unchanged
or_pasted_and(x, y) ==
    IF x.tag = "Bool" /\ y.tag = "Bool" THEN Ok(Bool(x.b /\ y.b))
    ELSE Err("UnsupportedOp")

or(x, y) ==
    IF x.tag = "Bool" /\ y.tag = "Bool" THEN Ok(Bool(x.b \/ y.b))
    ELSE Err("UnsupportedOp")

xor(x, y) ==
    IF x.tag = "Bool" /\ y.tag = "Bool" THEN Ok(Bool(x.b # y.b))
    ELSE Err("UnsupportedOp")

(***************************************************************************)
(* The operands the calls are checked on.                                  *)
(***************************************************************************)
MaxNumer == 3
MaxDenom == 2

Numers == (-MaxNumer .. MaxNumer) \cup {I32Min, -I32Max, -Pow16, Pow16, I32Max}
Denoms == (1 .. MaxDenom) \cup {Pow16, I32Max}

\* Num is kept in lowest terms with a positive denominator
Nums == {Num(p[1], p[2]) : p \in {q \in Numers \X Denoms : Gcd(q[1], q[2]).v = 1}}

OtherValues == {Void, NoneV, Bool(TRUE), Bool(FALSE), Str(<<>>), List(<<>>),
                Map(<<>>), Distribution, Func(<<>>)}

Values == Nums \cup OtherValues

UnaryOps  == {"neg", "not"}

NoRes == [tag |-> "NoRes"]

Call_neg ==
    /\ op = "none"
    /\ op' = "neg" /\ res' = neg(self_v)
    /\ UNCHANGED <<overflow_checks, self_v, rhs, fed, index_vars, fun_vars, str_vars, repl_vars>>

Call_add ==
    /\ op = "none"
    /\ op' = "add" /\ res' = add(self_v, rhs)
    /\ UNCHANGED <<overflow_checks, self_v, rhs, fed, index_vars, fun_vars, str_vars, repl_vars>>

Call_sub ==
    /\ op = "none"
    /\ op' = "sub" /\ res' = sub(self_v, rhs)
    /\ UNCHANGED <<overflow_checks, self_v, rhs, fed, index_vars, fun_vars, str_vars, repl_vars>>

Call_mul ==
    /\ op = "none"
    /\ op' = "mul" /\ res' = mul(self_v, rhs)
    /\ UNCHANGED <<overflow_checks, self_v, rhs, fed, index_vars, fun_vars, str_vars, repl_vars>>

Call_div ==
    /\ op = "none"
    /\ op' = "div" /\ res' = div(self_v, rhs)
    /\ UNCHANGED <<overflow_checks, self_v, rhs, fed, index_vars, fun_vars, str_vars, repl_vars>>

Call_pow ==
    /\ op = "none"
    /\ op' = "pow" /\ res' \in pow(self_v, rhs, Nums)
    /\ UNCHANGED <<overflow_checks, self_v, rhs, fed, index_vars, fun_vars, str_vars, repl_vars>>

Call_not ==
    /\ op = "none"
    /\ op' = "not" /\ res' = not(self_v)
    /\ UNCHANGED <<overflow_checks, self_v, rhs, fed, index_vars, fun_vars, str_vars, repl_vars>>

Call_and ==
    /\ op = "none"
    /\ op' = "and" /\ res' = and(self_v, rhs)
    /\ UNCHANGED <<overflow_checks, self_v, rhs, fed, index_vars, fun_vars, str_vars, repl_vars>>

Call_or ==
    /\ op = "none"
    /\ op' = "or" /\ res' = or(self_v, rhs)
    /\ UNCHANGED <<overflow_checks, self_v, rhs, fed, index_vars, fun_vars, str_vars, repl_vars>>

Call_xor ==
    /\ op = "none"
    /\ op' = "xor" /\ res' = xor(self_v, rhs)
    /\ UNCHANGED <<overflow_checks, self_v, rhs, fed, index_vars, fun_vars, str_vars, repl_vars>>

\* The caller hands the value a unary operation returned to a binary one as
\* its right operand, as in add(x, neg(x)); once per run.
Feed ==
    /\ op \in UnaryOps /\ res.tag = "Ok" /\ fed = "none"
    /\ rhs' = res.val /\ fed' = op
    /\ op' = "none" /\ res' = NoRes
    /\ UNCHANGED <<overflow_checks, self_v, index_vars, fun_vars, str_vars, repl_vars>>

ArithNext ==
    \/ Call_neg \/ Call_add \/ Call_sub \/ Call_mul \/ Call_div
    \/ Call_pow \/ Call_not \/ Call_and \/ Call_or \/ Call_xor
    \/ Feed

(***************************************************************************)
(* Value::index_mut (value.rs 100-149).                                    *)
(***************************************************************************)
\* x as usize for an i32 x: a negative x becomes 2^N + x, beyond any length;
\* [big |-> TRUE, off |-> x] stands for 2^N + x, [big |-> FALSE, off |-> x] for x
AsUsize(x) == [big |-> x < 0, off |-> x]

\* the mutable reference index_mut returns, as the place it points to
ListLoc(i) == [at |-> "List", idx |-> i]
MapLoc(k)  == [at |-> "Map", key |-> k]

\* the value a location of container c holds
Deref(c, loc) == IF loc.at = "List" THEN c.vec[loc.idx + 1] ELSE c.map[loc.key]

\* BTreeMap::insert(k, v) in the place of entry(k).or_insert(v): k is bound
\* to v whether or not it was present
OrInsert_replaces(m, k, v) ==
    [j \in DOMAIN m \cup {k} |-> IF j = k THEN v ELSE m[j]]

\* BTreeMap::entry(k).or_insert(v): the map, with k bound to v if it was absent
OrInsert(m, k, v) ==
    IF k \in DOMAIN m THEN m
    ELSE [j \in DOMAIN m \cup {k} |-> IF j = k THEN v ELSE m[j]]

\* value.rs 108-127: the position a Num key x selects in a vector of length len
ListIndex(len, x) ==
    LET n   == x.numer
        negn == WrapNeg(n)
        m   == AsUsize(negn.v)
        fromEnd == n < 0 /\ ~m.big /\ m.off <= len
        idx == IF fromEnd THEN AsUsize(len - m.off) ELSE AsUsize(n)
    IN  IF n < 0 /\ negn.ovf /\ overflow_checks THEN Panic
        ELSE IF ~idx.big /\ idx.off < len THEN Ok(ListLoc(idx.off))
        ELSE Err("InvalidArg")

\* the List arm (value.rs 104-134); the vector itself is never changed
ListArm(vec, k) ==
    IF k.tag = "Num" /\ IsInteger(k) THEN ListIndex(Len(vec), k)
    ELSE Err("UnexpectedType")

\* the Map arm with the test of `insert` dropped: a lookup inserts too
MapArm_always_inserts(m, k, ins) ==
    [map |-> OrInsert(m, k, NoneV), res |-> Ok(MapLoc(k))]

\* the Map arm (value.rs 135-143): [map |-> the map afterwards, res |-> result]
MapArm(m, k, ins) ==
    IF ins THEN [map |-> OrInsert(m, k, NoneV), res |-> Ok(MapLoc(k))]
    ELSE [map |-> m,
          res |-> IF k \in DOMAIN m THEN Ok(MapLoc(k)) ELSE Err("InvalidArg")]

\* index_mut(&mut self, arg, insert): [self |-> the value afterwards, res |-> result]
index_mut(c, k, ins) ==
    IF c.tag = "List" THEN [self |-> c, res |-> ListArm(c.vec, k)]
    ELSE IF c.tag = "Map"
        THEN LET r == MapArm(c.map, k, ins)
             IN  [self |-> Map(r.map), res |-> r.res]
    ELSE [self |-> c, res |-> Err("UnexpectedType")]

MaxLen == 2

Elems == {Num(1, 1), NoneV, Bool(TRUE)}

RECURSIVE SeqsUpTo(_, _)
SeqsUpTo(S, n) ==
    IF n = 0 THEN {<<>>}
    ELSE LET shorter == SeqsUpTo(S, n - 1)
         IN  shorter \cup {Append(q, e) : q \in {r \in shorter : Len(r) = n - 1}, e \in S}

Lists == {List(v) : v \in SeqsUpTo(Elems, MaxLen)}

MapKeys == {Num(0, 1), Str(<<>>), NoneV}

Maps == UNION {{Map(m) : m \in [D -> Elems]} : D \in SUBSET MapKeys}

Containers == Lists \cup Maps \cup
              {Void, NoneV, Bool(FALSE), Num(0, 1), Str(<<>>), Distribution, Func(<<>>)}

IndexArgs == {Num(i, 1) : i \in (-(MaxLen + 2) .. (MaxLen + 2)) \cup {I32Min, -I32Max, I32Max}}
             \cup {Num(1, 2), Num(-1, 2), Str(<<>>), NoneV, Bool(TRUE), List(<<>>)}

Call_index_mut ==
    /\ idx_res = NoRes
    /\ LET r == index_mut(container, arg, insert)
       IN  container' = r.self /\ idx_res' = r.res
    /\ UNCHANGED <<overflow_checks, container0, arg, insert, arith_vars, fun_vars, str_vars, repl_vars>>

IndexNext == Call_index_mut

(***************************************************************************)
(* FunDef::check_valid (value.rs 35-46), one action per loop iteration.    *)
(***************************************************************************)
Running == [tag |-> "Running"]

\* EvalError::invalid_arg("argument `{name}` appeared more than once!")
DuplicateArg(name) == [tag |-> "Err", kind |-> "InvalidArg", name |-> name]

MaxArgs == 4

Names == {"a", "b", "c"}

\* an insert that reports success whatever the set holds, as Vec::push would
SetInsert_always_new(set, name) == TRUE

\* BTreeSet::insert: TRUE when the value was not in the set yet
SetInsert(set, name) == name \notin set

\* the body of `for name in self.arg_names.iter()`
check_valid_iter ==
    /\ cv_res = Running /\ cv_pos < Len(arg_names)
    /\ LET name == arg_names[cv_pos + 1]
       IN  IF ~SetInsert(test_map, name)
              THEN cv_res' = DuplicateArg(name) /\ UNCHANGED <<test_map, cv_pos>>
           ELSE /\ test_map' = test_map \cup {name}
                /\ cv_pos' = cv_pos + 1
                /\ UNCHANGED cv_res
    /\ UNCHANGED <<overflow_checks, arg_names, arith_vars, index_vars, str_vars, repl_vars>>

\* the loop ran out of names: Ok(())
check_valid_return ==
    /\ cv_res = Running /\ cv_pos = Len(arg_names)
    /\ cv_res' = Ok(Void)
    /\ UNCHANGED <<overflow_checks, arg_names, cv_pos, test_map, arith_vars, index_vars, str_vars, repl_vars>>

FunNext == check_valid_iter \/ check_valid_return

(***************************************************************************)
(* Value::new_string (value.rs 65-92), one action per loop iteration.      *)
(***************************************************************************)
BS  == "\\"
DQ  == "\""
LF  == "\n"
CR  == "\r"
TAB == "\t"

\* the inner match without its arm for 'r'
Escaped_without_r(c) ==
    CASE c = BS  -> BS
      [] c = DQ  -> DQ
      [] c = "n" -> LF
      [] c = "t" -> TAB
      [] OTHER   -> c

\* the inner match: what the character after a backslash stands for
Escaped(c) ==
    CASE c = BS  -> BS
      [] c = DQ  -> DQ
      [] c = "n" -> LF
      [] c = "r" -> CR
      [] c = "t" -> TAB
      [] OTHER   -> c

MaxStr == 4

InChars == {BS, DQ, "n", "r", "t", "a"}

\* the body of `while let Some(ch) = char_iter.next()`
new_string_iter ==
    /\ ns_res = Running /\ char_iter < Len(s)
    /\ LET ch == s[char_iter + 1]
       IN  IF ch = BS
              THEN IF char_iter + 1 < Len(s)
                      THEN /\ out_str' = Append(out_str, Escaped(s[char_iter + 2]))
                           /\ char_iter' = char_iter + 2
                   ELSE /\ out_str' = Append(out_str, BS)
                        /\ char_iter' = char_iter + 1
           ELSE /\ out_str' = Append(out_str, ch)
                /\ char_iter' = char_iter + 1
    /\ UNCHANGED <<overflow_checks, s, ns_res, arith_vars, index_vars, fun_vars, repl_vars>>

\* char_iter is exhausted: Value::Str(out_str)
new_string_return ==
    /\ ns_res = Running /\ char_iter = Len(s)
    /\ ns_res' = Str(out_str)
    /\ UNCHANGED <<overflow_checks, s, char_iter, out_str, arith_vars, index_vars, fun_vars, repl_vars>>

StrNext == new_string_iter \/ new_string_return

(***************************************************************************)
(* real_main (main.rs 18-97): the read loop.                               *)
(***************************************************************************)
\* str::trim_left, str::trim_right, str::trim on a sequence of characters
RECURSIVE TrimLeft(_)
TrimLeft(l) == IF l # <<>> /\ Head(l) = " " THEN TrimLeft(Tail(l)) ELSE l

RECURSIVE TrimRight(_)
TrimRight(l) ==
    IF l # <<>> /\ l[Len(l)] = " " THEN TrimRight(SubSeq(l, 1, Len(l) - 1)) ELSE l

Trim(l) == TrimRight(TrimLeft(l))

\* parser::expr::parse_expr: Ok with an expression or Err with a parse error;
\* which of the two an input gets is left open
parse_expr(input) == {"Ok", "Err"}

\* the lines a read may deliver
Lines == {<<>>, <<" ">>, <<"1">>, <<" ", "(", " ">>}

\* what a read may give: rl.readline(prompt) when standard output is a
\* terminal, else the next line of the pipe (None is Eof, an io error is Io)
ReadOutcomes(tty) ==
    {Ok(l) : l \in Lines} \cup {Err("Eof"), Err("Io")}
    \cup (IF tty THEN {Err("Interrupted")} ELSE {})

MaxReads == 3

\* main.rs 37-45: read a line
ReadLine ==
    /\ pc = "read" /\ Len(reads) < MaxReads
    /\ \E r \in ReadOutcomes(out_isatty) :
          line_res' = r /\ reads' = Append(reads, r)
    /\ pc' = "match"
    /\ UNCHANGED <<overflow_checks, in_isatty, out_isatty, stdout, stderr, history,
                   parsed, return_status, arith_vars, index_vars, fun_vars, str_vars>>

\* main.rs 48: an input that is empty after trimming: continue
EmptyInput ==
    /\ pc = "match" /\ line_res.tag = "Ok" /\ Trim(line_res.val) = <<>>
    /\ pc' = "read"
    /\ UNCHANGED <<overflow_checks, in_isatty, out_isatty, line_res, reads, stdout,
                   stderr, history, parsed, return_status,
                   arith_vars, index_vars, fun_vars, str_vars>>

\* the Ok arm, but a parse error breaks out of the loop with status 1
OkInput_breaks_on_parse_error ==
    /\ pc = "match" /\ line_res.tag = "Ok" /\ Trim(line_res.val) # <<>>
    /\ LET input == line_res.val
       IN  \E parsed_res \in parse_expr(Trim(input)) :
              /\ history' = IF out_isatty THEN Append(history, TrimRight(input))
                            ELSE history
              /\ parsed' = Append(parsed, [input |-> Trim(input), res |-> parsed_res])
              /\ stdout' = (IF out_isatty THEN stdout
                            ELSE Append(stdout, [line |-> "echo", input |-> input]))
                           \o <<[line |-> "result", res |-> parsed_res]>>
              /\ pc' = IF parsed_res = "Err" THEN "after_loop" ELSE "read"
              /\ return_status' = IF parsed_res = "Err" THEN 1 ELSE return_status
    /\ UNCHANGED <<overflow_checks, in_isatty, out_isatty, line_res, reads, stderr,
                   arith_vars, index_vars, fun_vars, str_vars>>

\* main.rs 50-64: any other input: history or echo, parse, print the result
OkInput ==
    /\ pc = "match" /\ line_res.tag = "Ok" /\ Trim(line_res.val) # <<>>
    /\ LET input == line_res.val
       IN  \E parsed_res \in parse_expr(Trim(input)) :
              /\ history' = IF out_isatty THEN Append(history, TrimRight(input))
                            ELSE history
              /\ parsed' = Append(parsed, [input |-> Trim(input), res |-> parsed_res])
              /\ stdout' = (IF out_isatty THEN stdout
                            ELSE Append(stdout, [line |-> "echo", input |-> input]))
                           \o <<[line |-> "result", res |-> parsed_res]>>
    /\ pc' = "read"
    /\ UNCHANGED <<overflow_checks, in_isatty, out_isatty, line_res, reads, stderr,
                   return_status, arith_vars, index_vars, fun_vars, str_vars>>

\* main.rs 68-72: break 0
Interrupted ==
    /\ pc = "match" /\ line_res = Err("Interrupted")
    /\ stderr' = Append(stderr, "Interrupt received")
    /\ return_status' = 0
    /\ pc' = "after_loop"
    /\ UNCHANGED <<overflow_checks, in_isatty, out_isatty, line_res, reads, stdout,
                   history, parsed, arith_vars, index_vars, fun_vars, str_vars>>

\* main.rs 74-80: break 0
Eof ==
    /\ pc = "match" /\ line_res = Err("Eof")
    /\ stderr' = IF in_isatty THEN Append(stderr, "End-of-file received") ELSE stderr
    /\ return_status' = 0
    /\ pc' = "after_loop"
    /\ UNCHANGED <<overflow_checks, in_isatty, out_isatty, line_res, reads, stdout,
                   history, parsed, arith_vars, index_vars, fun_vars, str_vars>>

\* main.rs 82-88: break 1
OtherError ==
    /\ pc = "match" /\ line_res.tag = "Err"
    /\ line_res.kind \notin {"Interrupted", "Eof"}
    /\ stderr' = Append(stderr, "Encountered error")
    /\ return_status' = 1
    /\ pc' = "after_loop"
    /\ UNCHANGED <<overflow_checks, in_isatty, out_isatty, line_res, reads, stdout,
                   history, parsed, arith_vars, index_vars, fun_vars, str_vars>>

\* main.rs 92-96 and main.rs 15: print "Exiting", exit with return_status
Exit ==
    /\ pc = "after_loop"
    /\ stdout' = IF in_isatty THEN Append(stdout, [line |-> "Exiting"]) ELSE stdout
    /\ pc' = "exited"
    /\ UNCHANGED <<overflow_checks, in_isatty, out_isatty, line_res, reads, stderr,
                   history, parsed, return_status,
                   arith_vars, index_vars, fun_vars, str_vars>>

ReplNext == ReadLine \/ EmptyInput \/ OkInput \/ Interrupted \/ Eof \/ OtherError \/ Exit

(***************************************************************************)
(* Specifications: one per part of the program.  Each starts from every    *)
(* input of its part, in either build, with the other parts at rest.       *)
(***************************************************************************)
InitArith ==
    /\ overflow_checks \in BOOLEAN
    /\ self_v \in Values /\ rhs \in Values /\ op = "none" /\ res = NoRes
    /\ fed = "none"
    /\ container = Void /\ container0 = Void
    /\ arg = Void /\ insert = FALSE /\ idx_res = NoRes
    /\ arg_names = <<>> /\ cv_pos = 0 /\ test_map = {} /\ cv_res = Running
    /\ s = <<>> /\ char_iter = 0 /\ out_str = <<>> /\ ns_res = Running
    /\ pc = "read" /\ in_isatty = FALSE /\ out_isatty = FALSE
    /\ line_res = NoRes /\ reads = <<>> /\ stdout = <<>>
    /\ stderr = <<>> /\ history = <<>> /\ parsed = <<>>
    /\ return_status = -1

SpecArith == InitArith /\ [][ArithNext]_vars

InitIndex ==
    /\ overflow_checks \in BOOLEAN
    /\ self_v = Void /\ rhs = Void /\ op = "none" /\ res = NoRes /\ fed = "none"
    /\ container \in Containers /\ container0 = container
    /\ arg \in IndexArgs /\ insert \in BOOLEAN /\ idx_res = NoRes
    /\ arg_names = <<>> /\ cv_pos = 0 /\ test_map = {} /\ cv_res = Running
    /\ s = <<>> /\ char_iter = 0 /\ out_str = <<>> /\ ns_res = Running
    /\ pc = "read" /\ in_isatty = FALSE /\ out_isatty = FALSE
    /\ line_res = NoRes /\ reads = <<>> /\ stdout = <<>>
    /\ stderr = <<>> /\ history = <<>> /\ parsed = <<>>
    /\ return_status = -1

SpecIndex == InitIndex /\ [][IndexNext]_vars

InitFun ==
    /\ overflow_checks \in BOOLEAN
    /\ self_v = Void /\ rhs = Void /\ op = "none" /\ res = NoRes /\ fed = "none"
    /\ container = Void /\ container0 = Void
    /\ arg = Void /\ insert = FALSE /\ idx_res = NoRes
    /\ arg_names \in SeqsUpTo(Names, MaxArgs)
    /\ cv_pos = 0 /\ test_map = {} /\ cv_res = Running
    /\ s = <<>> /\ char_iter = 0 /\ out_str = <<>> /\ ns_res = Running
    /\ pc = "read" /\ in_isatty = FALSE /\ out_isatty = FALSE
    /\ line_res = NoRes /\ reads = <<>> /\ stdout = <<>>
    /\ stderr = <<>> /\ history = <<>> /\ parsed = <<>>
    /\ return_status = -1

SpecFun == InitFun /\ [][FunNext]_vars

InitStr ==
    /\ overflow_checks \in BOOLEAN
    /\ self_v = Void /\ rhs = Void /\ op = "none" /\ res = NoRes /\ fed = "none"
    /\ container = Void /\ container0 = Void
    /\ arg = Void /\ insert = FALSE /\ idx_res = NoRes
    /\ arg_names = <<>> /\ cv_pos = 0 /\ test_map = {} /\ cv_res = Running
    /\ s \in SeqsUpTo(InChars, MaxStr)
    /\ char_iter = 0 /\ out_str = <<>> /\ ns_res = Running
    /\ pc = "read" /\ in_isatty = FALSE /\ out_isatty = FALSE
    /\ line_res = NoRes /\ reads = <<>> /\ stdout = <<>>
    /\ stderr = <<>> /\ history = <<>> /\ parsed = <<>>
    /\ return_status = -1

SpecStr == InitStr /\ [][StrNext]_vars

InitRepl ==
    /\ overflow_checks \in BOOLEAN
    /\ self_v = Void /\ rhs = Void /\ op = "none" /\ res = NoRes /\ fed = "none"
    /\ container = Void /\ container0 = Void
    /\ arg = Void /\ insert = FALSE /\ idx_res = NoRes
    /\ arg_names = <<>> /\ cv_pos = 0 /\ test_map = {} /\ cv_res = Running
    /\ s = <<>> /\ char_iter = 0 /\ out_str = <<>> /\ ns_res = Running
    /\ pc = "read"
    /\ in_isatty \in BOOLEAN /\ out_isatty \in BOOLEAN
    /\ line_res = NoRes /\ reads = <<>>
    /\ stdout = IF in_isatty /\ out_isatty THEN <<[line |-> "started"]>> ELSE <<>>
    /\ stderr = <<>> /\ history = <<>> /\ parsed = <<>>
    /\ return_status = -1

SpecRepl == InitRepl /\ [][ReplNext]_vars

(***************************************************************************)
(* Exact rational arithmetic, for stating what the results should be.      *)
(* A magnitude is a natural number; Big stands for 2^31, the magnitude of  *)
(* I32Min, which no i32 holds.                                             *)
(***************************************************************************)
Big == 0 - 1

RECURSIVE RefGcd(_, _)
RefGcd(m, n) == IF n = 0 THEN m ELSE RefGcd(n, m % n)

\* the largest power of two dividing b, for b # 0 and b # I32Min
RECURSIVE TwoPart(_)
TwoPart(b) == IF b % 2 = 1 THEN 1 ELSE 2 * TwoPart(b \div 2)

\* gcd(|a|, |b|), a and b not both zero
MagGcd(a, b) ==
    IF a = I32Min THEN (IF b = I32Min \/ b = 0 THEN Big ELSE TwoPart(b))
    ELSE IF b = I32Min THEN (IF a = 0 THEN Big ELSE TwoPart(a))
    ELSE RefGcd(Abs(a), Abs(b))

\* |a| / g for a divisor g of |a|
MagDiv(a, g) ==
    IF g = Big THEN (IF a = 0 THEN 0 ELSE 1)
    ELSE IF a = I32Min THEN (IF g = 1 THEN Big ELSE (I32Max \div g) + 1)
    ELSE Abs(a) \div g

\* p * q = 2^31
MagMulIsBig(p, q) ==
    \/ p = Big /\ q = 1
    \/ q = Big /\ p = 1
    \/ /\ p # Big /\ q # Big /\ q >= 2
       /\ I32Max % q = q - 1 /\ p = (I32Max \div q) + 1

\* p * q <= I32Max
MagMulFits(p, q) ==
    /\ p # Big /\ q # Big
    /\ (p = 0 \/ q = 0 \/ p <= I32Max \div q)

\* The quotient x / y of two Nums in lowest terms (y # 0), in lowest terms
\* with a positive denominator: rep says whether a Ratio<i32> can hold it.
ExactQuotient(x, y) ==
    LET g1 == MagGcd(x.numer, y.numer)
        g2 == RefGcd(x.denom, y.denom)
        A  == MagDiv(x.numer, g1)
        B  == y.denom \div g2
        C  == x.denom \div g2
        D  == MagDiv(y.numer, g1)
        negative == x.numer # 0 /\ ((x.numer < 0) # (y.numer < 0))
    IN  IF MagMulFits(C, D) /\ MagMulFits(A, B)
            THEN [rep |-> TRUE, numer |-> IF negative THEN -(A * B) ELSE A * B,
                  denom |-> C * D]
        ELSE IF MagMulFits(C, D) /\ negative /\ MagMulIsBig(A, B)
            THEN [rep |-> TRUE, numer |-> I32Min, denom |-> C * D]
        ELSE [rep |-> FALSE, numer |-> 0, denom |-> 1]

IsNum(v) == v.tag = "Num"
IsBool(v) == v.tag = "Bool"
IsWhole(v) == v.tag = "Num" /\ v.denom = 1

(***************************************************************************)
(* Claims about the arithmetic and logical operations (SpecArith).         *)
(***************************************************************************)

\* C1: for all i32 integers a and b with b # 0, div(Num(a), Num(b)) returns
\* Ok(Num(q)) with q the fraction a/b in lowest terms with a positive
\* denominator; div(Num(a), Num(0)) returns an ArithmeticError.
C1_DivOfIntegers ==
    (op = "div" /\ IsWhole(self_v) /\ IsWhole(rhs)) =>
        IF rhs.numer = 0 THEN res = Err("ArithmeticError")
        ELSE LET q == ExactQuotient(self_v, rhs)
             IN  q.rep /\ res = Ok(Num(q.numer, q.denom))

\* the divisor truncated toward zero is zero: |y| < 1
TruncatesToZero(y) == -y.denom < y.numer /\ y.numer < y.denom

\* C2: div on (Num x, Num y) fails with ArithmeticError exactly when y
\* truncated toward zero is zero (so also for 1/2); for every other Num
\* divisor it returns Ok with the exact rational quotient x/y.
C2_DivGuardAndQuotient ==
    (op = "div" /\ IsNum(self_v) /\ IsNum(rhs)) =>
        IF TruncatesToZero(rhs) THEN res = Err("ArithmeticError")
        ELSE LET q == ExactQuotient(self_v, rhs)
             IN  q.rep /\ res = Ok(Num(q.numer, q.denom))

\* C3: for every Num x, the minimum numerator included, neg(x) returns
\* Ok(Num(-x)) and add(x, neg(x)) returns Ok(Num(0)), with no overflow or
\* abort on the way.
C3_NegThenAdd ==
    /\ (op = "neg" /\ IsNum(self_v)) =>
          /\ self_v.numer # I32Min
          /\ res = Ok(Num(-self_v.numer, self_v.denom))
    /\ (op = "add" /\ fed = "neg") => res = Ok(Num(0, 1))

BothNum  == IsNum(self_v) /\ IsNum(rhs)
BothBool == IsBool(self_v) /\ IsBool(rhs)

\* C8: every operation applied outside its operand types fails with
\* UnsupportedOp: add, sub, mul, div, pow unless both operands are Num; and,
\* or, xor unless both are Bool; neg unless the operand is Num; not unless
\* it is Bool.  On (Bool, Bool), and, or, xor are conjunction, disjunction
\* and exclusive or.
C8_UnsupportedOperands ==
    /\ (op \in {"add", "sub", "mul", "div", "pow"} /\ ~BothNum)
          => res = Err("UnsupportedOp")
    /\ (op \in {"and", "or", "xor"} /\ ~BothBool) => res = Err("UnsupportedOp")
    /\ (op = "neg" /\ ~IsNum(self_v)) => res = Err("UnsupportedOp")
    /\ (op = "not" /\ ~IsBool(self_v)) => res = Err("UnsupportedOp")
    /\ (op = "and" /\ BothBool) => res = Ok(Bool(self_v.b /\ rhs.b))
    /\ (op = "or"  /\ BothBool) => res = Ok(Bool(self_v.b \/ rhs.b))
    /\ (op = "xor" /\ BothBool) => res = Ok(Bool(self_v.b # rhs.b))

\* a binary operation was refused for a Str operand, and a logical one
\* answered on two Bools
C8_Witness ==
    \/ op = "add" /\ self_v.tag = "Str" /\ IsNum(rhs) /\ res = Err("UnsupportedOp")
    \/ op = "or" /\ self_v = Bool(TRUE) /\ rhs = Bool(FALSE) /\ res = Ok(Bool(TRUE))

(***************************************************************************)
(* Claims about index_mut (SpecIndex).                                     *)
(***************************************************************************)
Called == idx_res # NoRes

\* C4: for a List of length n and an integer Num key i, index_mut returns the
\* element at position i when 0 <= i < n, the element at position n + i when
\* -n <= i < 0, and fails with InvalidArg for every other integer i.
C4_ListIndexing ==
    (Called /\ container0.tag = "List" /\ IsWhole(arg)) =>
        LET n == Len(container0.vec)
            i == arg.numer
        IN  IF 0 <= i /\ i < n THEN idx_res = Ok(ListLoc(i))
            ELSE IF -n <= i /\ i < 0 THEN idx_res = Ok(ListLoc(n + i))
            ELSE idx_res = Err("InvalidArg")

RepeatPositions(names) ==
    {j \in 1 .. Len(names) : \E i \in 1 .. (j - 1) : names[i] = names[j]}

Earliest(S) == CHOOSE j \in S : \A k \in S : j <= k

\* C6: check_valid returns an InvalidArg error if and only if some name
\* occurs more than once in arg_names, and otherwise Ok; the name reported is
\* the one at the earliest position whose name already occurred earlier.
C6_DuplicateArgNames ==
    cv_res # Running =>
        LET rep == RepeatPositions(arg_names)
        IN  IF rep = {} THEN cv_res = Ok(Void)
            ELSE /\ cv_res.tag = "Err" /\ cv_res.kind = "InvalidArg"
                 /\ cv_res.name = arg_names[Earliest(rep)]

\* a rejected list with two repeated names, the reported one not the first
\* name of the list
C6_Witness ==
    /\ cv_res.tag = "Err"
    /\ Cardinality(RepeatPositions(arg_names)) = 2
    /\ cv_res.name # arg_names[1]

(***************************************************************************)
(* Claim about Value::new_string (SpecStr).                                *)
(***************************************************************************)
\* the character a backslash followed by c stands for
Unescaped(c) ==
    IF c = "n" THEN LF ELSE IF c = "r" THEN CR ELSE IF c = "t" THEN TAB ELSE c

\* the unescaped text of q, read left to right
RECURSIVE Unescape(_)
Unescape(q) ==
    IF q = <<>> THEN <<>>
    ELSE IF Head(q) # BS THEN <<Head(q)>> \o Unescape(Tail(q))
    ELSE IF Len(q) = 1 THEN <<BS>>
    ELSE <<Unescaped(q[2])>> \o Unescape(SubSeq(q, 3, Len(q)))

\* C7: new_string always returns a Str: each backslash consumes the next
\* character and emits backslash for a backslash, a double quote for a double
\* quote, line feed for n, carriage return for r, tab for t and the character
\* itself for any other; a backslash ending the input emits one backslash;
\* every other character is copied unchanged.
C7_Unescaping ==
    ns_res # Running => ns_res = Str(Unescape(s))

\* an input with an escaped n, a plain character and a closing lone backslash
C7_Witness ==
    /\ s = <<BS, "n", "a", BS>>
    /\ ns_res = Str(<<LF, "a", BS>>)

(***************************************************************************)
(* Claim about the loop of real_main (SpecRepl).                           *)
(***************************************************************************)
LoopEnded == pc \in {"after_loop", "exited"}

\* the reads the match has dealt with: all but one still waiting at "match"
Handled == IF pc = "match" THEN SubSeq(reads, 1, Len(reads) - 1) ELSE reads

IsLine(r) == r.tag = "Ok" /\ Trim(r.val) # <<>>

\* the lines among the reads rs that are not blank, in order
RECURSIVE Lines_of(_)
Lines_of(rs) ==
    IF rs = <<>> THEN <<>>
    ELSE IF IsLine(Head(rs)) THEN <<Head(rs).val>> \o Lines_of(Tail(rs))
    ELSE Lines_of(Tail(rs))

RECURSIVE Results_of(_)
Results_of(out) ==
    IF out = <<>> THEN <<>>
    ELSE IF Head(out).line = "result" THEN <<Head(out).res>> \o Results_of(Tail(out))
    ELSE Results_of(Tail(out))

\* C9: a line whose parse fails never ends the loop: its result is printed
\* and the next line is read.  The loop ends only on a read outcome, with
\* status 0 on interrupt or end-of-file and 1 on any other read error; a line
\* that is empty after trimming is neither parsed nor printed as a result.
C9_LoopEndsOnlyOnReadError ==
    LET h == Handled
        lines == Lines_of(h)
    IN  /\ \A i \in 1 .. Len(h) : h[i].tag = "Err" => (i = Len(h) /\ LoopEnded)
        /\ LoopEnded =>
              /\ h # <<>> /\ h[Len(h)].tag = "Err"
              /\ return_status = IF h[Len(h)].kind \in {"Interrupted", "Eof"}
                                 THEN 0 ELSE 1
        /\ ~LoopEnded => return_status = -1
        /\ Len(parsed) = Len(lines)
        /\ \A i \in 1 .. Len(parsed) : parsed[i].input = Trim(lines[i])
        /\ Results_of(stdout) = [i \in 1 .. Len(parsed) |-> parsed[i].res]
        /\ (pc = "read" /\ h # <<>>) => h[Len(h)].tag = "Ok"

\* a line failed to parse, a blank line was skipped, and a later line was
\* still read and parsed
C9_Witness ==
    /\ pc = "read" /\ Len(reads) = 3
    /\ reads[2] = Ok(<<" ">>)
    /\ Len(parsed) = 2 /\ parsed[1].res = "Err" /\ parsed[2].res = "Ok"

====
